---- MODULE Spec2Model ----
(***************************************************************************)
(* Flashcard study tool: the revision-date utility (timeUtils.ts), the     *)
(* rapid-fire quiz component (RapidFire) and the dashboard with its card   *)
(* store gateway (Dashboard.tsx, firestoreService.ts).                     *)
(*                                                                         *)
(* Three specifications share the module:                                  *)
(*   SpecPure  the pure functions, applied to inputs drawn in Init;        *)
(*   SpecQuiz  one mounted RapidFire component, its timers and callbacks;  *)
(*   SpecDash  one Dashboard client and the card store behind the gateway. *)
(***************************************************************************)
EXTENDS Integers, Sequences, FiniteSets, TLC

VARIABLES
    \* ---- SpecPure: one call of a pure function and what it returned
    call, ret,
    \* ---- SpecQuiz: RapidFire props, hooks state, timers
    flashcardsProp,      \* props.flashcards
    shuffledFlashcards,  \* the useMemo value
    shuffleCount,        \* how many times the useMemo callback has run
    mounted,             \* the component is mounted (isRapidFireOpen)
    currentIndex, userAnswer, showAnswer, isCorrect, score, timeLeft,
    gameState, result, startTime,
    timerRef,            \* the pending setTimeout of the timer effect, <<>> when none
    advances,            \* the pending setTimeout(() => nextQuestion(), 2000) callbacks
    now,                 \* Date.now(), in quiz time units since mount
    \* ---- SpecDash: the card store, the Dashboard's hooks state, calls in flight
    store,               \* the documents of the flashcards collection
    nextId,              \* the identifier the store generates next
    flashcards, isModalOpen, newFront, newBack, revisionSettings, loading, error,
    pending,             \* gateway calls awaited by a handler, with what the handler closed over
    issued,              \* how many gateway calls the handlers have made so far
    wallClock,           \* new Date() and the server's timestamp, in milliseconds
    peer                 \* the Dashboard of the same user on a second device: its load and its card list

pureVars == <<call, ret>>
quizVars == <<flashcardsProp, shuffledFlashcards, shuffleCount, mounted, currentIndex, userAnswer, showAnswer, isCorrect, score, timeLeft, gameState, result, startTime, timerRef, advances, now>>
dashVars == <<store, nextId, flashcards, isModalOpen, newFront, newBack, revisionSettings, loading, error, pending, issued, wallClock, peer>>
vars == <<pureVars, quizVars, dashVars>>

(***************************************************************************)
(* Numbers.  A JavaScript number is a double, exact on integers below      *)
(* 2^53; a month is 2 592 000 000 ms, beyond a 32-bit integer.  A          *)
(* millisecond quantity is therefore held as hi * 1000 + lo, 0 <= lo < 1000.*)
(***************************************************************************)
MsNorm(h, l) == [hi |-> h + (l \div 1000), lo |-> l % 1000]
MsOfInt(n) == MsNorm(0, n)
MsAdd(a, b) == MsNorm(a.hi + b.hi, a.lo + b.lo)
MsSub(a, b) == MsNorm(a.hi - b.hi, a.lo - b.lo)
MsTimes(a, k) == MsNorm(a.hi * k, a.lo * k)
MsLeq(a, b) == a.hi < b.hi \/ (a.hi = b.hi /\ a.lo <= b.lo)

(***************************************************************************)
(* Strings are sequences of one-character strings.                         *)
(***************************************************************************)
UpperLetters == <<"A","B","C","D","E","F","G","H","I","J","K","L","M","N","O","P","Q","R","S","T","U","V","W","X","Y","Z">>
LowerLetters == <<"a","b","c","d","e","f","g","h","i","j","k","l","m","n","o","p","q","r","s","t","u","v","w","x","y","z">>
WhiteSpace == {" ", "\t", "\n"}

LowerChar(c) == IF \E i \in 1..Len(UpperLetters) : UpperLetters[i] = c THEN LowerLetters[CHOOSE i \in 1..Len(UpperLetters) : UpperLetters[i] = c] ELSE c

\* String.prototype.toLowerCase
toLowerCase(s) == [i \in 1..Len(s) |-> LowerChar(s[i])]

RECURSIVE trimStart(_)
trimStart(s) == IF s # <<>> /\ Head(s) \in WhiteSpace THEN trimStart(Tail(s)) ELSE s

RECURSIVE trimEnd(_)
trimEnd(s) == IF s # <<>> /\ s[Len(s)] \in WhiteSpace THEN trimEnd(SubSeq(s, 1, Len(s) - 1)) ELSE s

\* String.prototype.trim
trim(s) == trimEnd(trimStart(s))

\* String.prototype.includes: t occurs in s at some position
includes(s, t) == \E k \in 0..(Len(s) - Len(t)) : SubSeq(s, k + 1, k + Len(t)) = t

(***************************************************************************)
(* timeUtils.ts                                                            *)
(***************************************************************************)
TimeUnits == {"seconds", "minutes", "hours", "days", "weeks", "months"}

\* the table with a calendar-style 31-day month
conversions_month31(unit) ==
    CASE unit = "seconds" -> MsOfInt(1000)
      [] unit = "minutes" -> MsTimes(MsOfInt(1000), 60)
      [] unit = "hours"   -> MsTimes(MsTimes(MsOfInt(1000), 60), 60)
      [] unit = "days"    -> MsTimes(MsTimes(MsTimes(MsOfInt(1000), 60), 60), 24)
      [] unit = "weeks"   -> MsTimes(MsTimes(MsTimes(MsTimes(MsOfInt(1000), 60), 60), 24), 7)
      [] unit = "months"  -> MsTimes(MsTimes(MsTimes(MsTimes(MsOfInt(1000), 60), 60), 24), 31)

conversions(unit) ==
    CASE unit = "seconds" -> MsOfInt(1000)
      [] unit = "minutes" -> MsTimes(MsOfInt(1000), 60)
      [] unit = "hours"   -> MsTimes(MsTimes(MsOfInt(1000), 60), 60)
      [] unit = "days"    -> MsTimes(MsTimes(MsTimes(MsOfInt(1000), 60), 60), 24)
      [] unit = "weeks"   -> MsTimes(MsTimes(MsTimes(MsTimes(MsOfInt(1000), 60), 60), 24), 7)
      [] unit = "months"  -> MsTimes(MsTimes(MsTimes(MsTimes(MsOfInt(1000), 60), 60), 24), 30)

convertToMilliseconds(interval, unit) == MsTimes(conversions(unit), interval)

\* new Date() is the parameter clock
getNextRevisionDate(interval, unit, clock) == MsAdd(clock, convertToMilliseconds(interval, unit))

\* diffMs <= 0, for a difference held as seconds and a millisecond remainder
overdue_strict(diffMs) == diffMs.hi < 0

overdue(diffMs) == diffMs.hi < 0 \/ (diffMs.hi = 0 /\ diffMs.lo = 0)

Label(value, one, many) == [value |-> value, unit |-> IF value = 1 THEN one ELSE many]

\* the cascade with weeks asked before months
wholeUnits_weeksFirst(seconds) ==
    LET minutes == seconds \div 60
        hours == minutes \div 60
        days == hours \div 24
        weeks == days \div 7
        months == days \div 30
    IN  IF weeks > 0 THEN Label(weeks, "week", "weeks")
        ELSE IF months > 0 THEN Label(months, "month", "months")
        ELSE IF days > 0 THEN Label(days, "day", "days")
        ELSE IF hours > 0 THEN Label(hours, "hour", "hours")
        ELSE IF minutes > 0 THEN Label(minutes, "minute", "minutes")
        ELSE Label(seconds, "second", "seconds")

wholeUnits(seconds) ==
    LET minutes == seconds \div 60
        hours == minutes \div 60
        days == hours \div 24
        weeks == days \div 7
        months == days \div 30
    IN  IF months > 0 THEN Label(months, "month", "months")
        ELSE IF weeks > 0 THEN Label(weeks, "week", "weeks")
        ELSE IF days > 0 THEN Label(days, "day", "days")
        ELSE IF hours > 0 THEN Label(hours, "hour", "hours")
        ELSE IF minutes > 0 THEN Label(minutes, "minute", "minutes")
        ELSE Label(seconds, "second", "seconds")

\* new Date() is the parameter clock; Math.floor(diffMs / 1000) is the seconds part
getTimeUntilRevision(nextRevision, clock) ==
    LET diffMs == MsSub(nextRevision, clock)
    IN  IF overdue(diffMs) THEN [value |-> 0, unit |-> "overdue"] ELSE wholeUnits(diffMs.hi)

(***************************************************************************)
(* RapidFire: grading of a submitted answer (handleSubmit, lines 74-80)    *)
(***************************************************************************)
\* grading without the "answer contains the back text" check
isAnswerCorrect_noReverse(back, answer) ==
    LET correctAnswer == trim(toLowerCase(back))
        userAnswerLower == trim(toLowerCase(answer))
    IN  correctAnswer = userAnswerLower \/ includes(correctAnswer, userAnswerLower)

isAnswerCorrect(back, answer) ==
    LET correctAnswer == trim(toLowerCase(back))
        userAnswerLower == trim(toLowerCase(answer))
    IN  \/ correctAnswer = userAnswerLower
        \/ includes(correctAnswer, userAnswerLower)
        \/ includes(userAnswerLower, correctAnswer)

(***************************************************************************)
(* SpecPure: the pure functions on inputs drawn from bounded sets          *)
(***************************************************************************)
MaxInterval == 3
MaxClockHi == 2
MaxStrLen == 3
GradeChars == {"a", "A", "b", " "}

ClockSamples == {[hi |-> h, lo |-> l] : h \in 0..MaxClockHi, l \in {0, 1, 999}}
StringsUpTo(n) == UNION {[1..k -> GradeChars] : k \in 0..n}
ZeroMs == [hi |-> 0, lo |-> 0]

NextRevisionCalls == {[fn |-> "getNextRevisionDate", interval |-> i, unit |-> u, clock |-> t, due |-> ZeroMs, back |-> <<>>, answer |-> <<>>] : i \in 1..MaxInterval, u \in TimeUnits, t \in ClockSamples}
GradeCalls == {[fn |-> "handleSubmit", interval |-> 0, unit |-> "seconds", clock |-> ZeroMs, due |-> ZeroMs, back |-> b, answer |-> a] : b \in StringsUpTo(MaxStrLen), a \in StringsUpTo(MaxStrLen)}

NoCallMade == [fn |-> "none", interval |-> 0, unit |-> "seconds", clock |-> ZeroMs, due |-> ZeroMs, back |-> <<>>, answer |-> <<>>]
NoReturn == [done |-> FALSE, date |-> ZeroMs, graded |-> FALSE, correct |-> FALSE, value |-> 0, unit |-> "none"]

\* distances between the clock and a due date: whole counts of every unit, and
\* such a count a little short of or a little beyond the next one
DueWhole == {MsTimes(conversions(u), k) : u \in TimeUnits, k \in 0..MaxInterval}
DueExtra == {MsOfInt(-1), ZeroMs, MsOfInt(1), MsOfInt(999), MsOfInt(90000), MsTimes(conversions("days"), 6), MsTimes(conversions("days"), 29)}
DueDistances == {MsAdd(w, e) : w \in DueWhole, e \in DueExtra}
TimeUntilCalls ==
    {[NoCallMade EXCEPT !.fn = "getTimeUntilRevision", !.clock = t, !.due = MsAdd(t, d)] : t \in ClockSamples, d \in DueDistances}
    \cup {[NoCallMade EXCEPT !.fn = "getTimeUntilRevision", !.clock = t, !.due = MsSub(t, d)] : t \in ClockSamples, d \in DueDistances}

GradeCall(b, a) == [fn |-> "handleSubmit", interval |-> 0, unit |-> "seconds", clock |-> ZeroMs, due |-> ZeroMs, back |-> b, answer |-> a]
Paris == <<"P", "a", "r", "i", "s">>
ExampleCalls == {GradeCall(Paris, <<"p", "a", "r", "i", "s">>), GradeCall(Paris, <<"p", "a", "r", "i">>), GradeCall(Paris, <<"R", "o", "m", "e">>), GradeCall(<<"a">>, <<"c", "a", "t">>)}


CallGetNextRevisionDate ==
    /\ call.fn = "getNextRevisionDate"
    /\ ~ret.done
    /\ ret' = [NoReturn EXCEPT !.done = TRUE, !.date = getNextRevisionDate(call.interval, call.unit, call.clock)]
    /\ UNCHANGED <<call, quizVars, dashVars>>

CallGetTimeUntilRevision ==
    /\ call.fn = "getTimeUntilRevision"
    /\ ~ret.done
    /\ ret' = [NoReturn EXCEPT !.done = TRUE, !.value = getTimeUntilRevision(call.due, call.clock).value,
                               !.unit = getTimeUntilRevision(call.due, call.clock).unit]
    /\ UNCHANGED <<call, quizVars, dashVars>>

\* handleSubmit on one card: returns before grading when the trimmed answer is empty
CallHandleSubmit ==
    /\ call.fn = "handleSubmit"
    /\ ~ret.done
    /\ ret' = IF trim(call.answer) = <<>>
                THEN [NoReturn EXCEPT !.done = TRUE]
                ELSE [NoReturn EXCEPT !.done = TRUE, !.graded = TRUE, !.correct = isAnswerCorrect(call.back, call.answer)]
    /\ UNCHANGED <<call, quizVars, dashVars>>

(***************************************************************************)
(* RapidFire (src/unnamed/part_002)                                        *)
(*                                                                         *)
(* Time is counted in periods of the countdown timer (TickMs).  A handler  *)
(* or a timer callback runs to completion at one instant; React batches    *)
(* its state updates into one render, after which the timer effect runs    *)
(* again when timeLeft or gameState changed.  A timeout that is due fires  *)
(* before the user does anything else; two timeouts due at the same        *)
(* instant fire in either order.                                           *)
(***************************************************************************)
QuestionSeconds == 30
TickMs == 1000
AdvanceMs == 2000
MaxCards == 2
MaxNow == 34

TickDelay == TickMs \div TickMs
AdvanceDelay == AdvanceMs \div TickMs

SampleBacks == << <<"P", "a">>, <<"a">>, <<" ", "B">> >>
SampleCard(i) == [id |-> i, front |-> <<"q">>, back |-> SampleBacks[((i - 1) % Len(SampleBacks)) + 1]]
CardSets == {[i \in 1..n |-> SampleCard(i)] : n \in 0..MaxCards}
AnswerPool == {<<>>, <<"p", "a", " ">>, <<"r">>}

\* [...flashcards].sort(() => Math.random() - 0.5): some rearrangement of the array
Shuffles(cards) == {[i \in 1..Len(cards) |-> cards[p[i]]] : p \in {f \in [1..Len(cards) -> 1..Len(cards)] : \A i, j \in 1..Len(cards) : f[i] = f[j] => i = j}}

\* Math.round(x / y) for integers x >= 0, y > 0
RoundDiv(x, y) == (2 * x + y) \div (2 * y)

\* the hooks state of the component as one record
Q == [currentIndex |-> currentIndex, userAnswer |-> userAnswer, showAnswer |-> showAnswer, isCorrect |-> isCorrect, score |-> score, timeLeft |-> timeLeft, gameState |-> gameState, result |-> result, startTime |-> startTime, timerRef |-> timerRef, advances |-> advances]

SetQ(q) ==
    /\ currentIndex' = q.currentIndex
    /\ userAnswer' = q.userAnswer
    /\ showAnswer' = q.showAnswer
    /\ isCorrect' = q.isCorrect
    /\ score' = q.score
    /\ timeLeft' = q.timeLeft
    /\ gameState' = q.gameState
    /\ result' = q.result
    /\ startTime' = q.startTime
    /\ timerRef' = q.timerRef
    /\ advances' = q.advances

\* what () => nextQuestion() closes over when a render's handler schedules it
AdvanceClosure(q) == [rem |-> AdvanceDelay, currentIndex |-> q.currentIndex, score |-> q.score, startTime |-> q.startTime]

handleTimeUp_noAdvance(q) ==
    IF q.gameState = "playing"
    THEN [q EXCEPT !.showAnswer = TRUE, !.isCorrect = "false"]
    ELSE q

handleTimeUp(q) ==
    IF q.gameState = "playing"
    THEN [q EXCEPT !.showAnswer = TRUE, !.isCorrect = "false", !.advances = Append(@, AdvanceClosure(q))]
    ELSE q

\* the body of the timer effect, run after its cleanup
timerEffect(q) ==
    IF q.gameState = "playing" /\ q.timeLeft > 0
    THEN [q EXCEPT !.timerRef = <<[rem |-> TickDelay, timeLeft |-> q.timeLeft]>>]
    ELSE IF q.timeLeft = 0 THEN handleTimeUp(q) ELSE q

\* the render that follows a batch of updates: cleanup and effect when a dependency changed
AfterRender(old, new) ==
    IF new.timeLeft = old.timeLeft /\ new.gameState = old.gameState
    THEN new
    ELSE timerEffect([new EXCEPT !.timerRef = <<>>])

QuizResult(c, n, clock) == [correct |-> c.score, total |-> n, timeSpent |-> RoundDiv((clock - c.startTime) * TickMs, 1000), accuracy |-> IF n = 0 THEN [nan |-> TRUE, value |-> 0] ELSE [nan |-> FALSE, value |-> RoundDiv(c.score * 100, n)]]

\* nextQuestion as the closure c sees it, applied to the state q
nextQuestion(c, q, n, clock) ==
    IF c.currentIndex + 1 >= n
    THEN [q EXCEPT !.result = <<QuizResult(c, n, clock)>>, !.gameState = "finished"]
    ELSE [q EXCEPT !.currentIndex = c.currentIndex + 1, !.userAnswer = <<>>, !.showAnswer = FALSE, !.isCorrect = "null", !.timeLeft = QuestionSeconds]

handleSubmit(q, cards) ==
    LET ok == isAnswerCorrect(cards[q.currentIndex + 1].back, q.userAnswer)
    IN  [q EXCEPT !.showAnswer = TRUE, !.isCorrect = IF ok THEN "true" ELSE "false", !.score = IF ok THEN q.score + 1 ELSE q.score, !.advances = Append(@, AdvanceClosure(q))]

resetGame(q, clock) == [q EXCEPT !.currentIndex = 0, !.userAnswer = <<>>, !.showAnswer = FALSE, !.isCorrect = "null", !.score = 0, !.timeLeft = QuestionSeconds, !.gameState = "playing", !.result = <<>>, !.startTime = clock]

\* which of the three screens the component renders
NoCardsScreen == Len(flashcardsProp) = 0
ResultsScreen == ~NoCardsScreen /\ gameState = "finished" /\ result # <<>>
QuestionScreen == ~NoCardsScreen /\ ~ResultsScreen


QuizProps == <<flashcardsProp, shuffledFlashcards, shuffleCount>>

\* no timeout is due at this instant
NothingDue == (timerRef # <<>> => timerRef[1].rem > 0) /\ (\A i \in 1..Len(advances) : advances[i].rem > 0)

\* onChange of the answer input
TypeAnswer ==
    /\ mounted /\ NothingDue /\ QuestionScreen /\ ~showAnswer
    /\ \E a \in AnswerPool : a # userAnswer /\ SetQ([Q EXCEPT !.userAnswer = a])
    /\ UNCHANGED <<QuizProps, mounted, now, pureVars, dashVars>>

\* the form's submit: the input and the button are disabled while the answer is shown
Submit ==
    /\ mounted /\ NothingDue /\ QuestionScreen /\ ~showAnswer
    /\ trim(userAnswer) # <<>>
    /\ SetQ(AfterRender(Q, handleSubmit(Q, shuffledFlashcards)))
    /\ UNCHANGED <<QuizProps, mounted, now, pureVars, dashVars>>

\* the effect's one-second timeout fires: setTimeLeft(timeLeft - 1)
Tick ==
    /\ timerRef # <<>> /\ timerRef[1].rem = 0
    /\ SetQ(AfterRender(Q, [Q EXCEPT !.timeLeft = timerRef[1].timeLeft - 1, !.timerRef = <<>>]))
    /\ UNCHANGED <<QuizProps, mounted, now, pureVars, dashVars>>

\* the oldest two-second timeout fires: nextQuestion() of the render that scheduled it
Advance ==
    /\ advances # <<>> /\ advances[1].rem = 0
    /\ IF mounted
       THEN SetQ(AfterRender(Q, nextQuestion(advances[1], [Q EXCEPT !.advances = Tail(@)], Len(shuffledFlashcards), now)))
       ELSE SetQ([Q EXCEPT !.advances = Tail(@)])   \* setState on an unmounted component does nothing
    /\ UNCHANGED <<QuizProps, mounted, now, pureVars, dashVars>>

\* Play Again on the results screen
PlayAgain ==
    /\ mounted /\ NothingDue /\ ResultsScreen
    /\ SetQ(AfterRender(Q, resetGame(Q, now)))
    /\ UNCHANGED <<QuizProps, mounted, now, pureVars, dashVars>>

\* useState initial values (lines 18-26)
InitialQ(clock) == [currentIndex |-> 0, userAnswer |-> <<>>, showAnswer |-> FALSE, isCorrect |-> "null", score |-> 0, timeLeft |-> QuestionSeconds, gameState |-> "playing", result |-> <<>>, startTime |-> clock, timerRef |-> <<>>, advances |-> <<>>]

\* Quit Game / Close: the component unmounts, the effect's cleanup clears timerRef's
\* timeout and React drops the hooks state (shown here as its initial values); the
\* two-second timeouts are not held anywhere and stay scheduled
Close ==
    /\ mounted /\ NothingDue
    /\ mounted' = FALSE
    /\ SetQ([InitialQ(0) EXCEPT !.advances = advances])
    /\ UNCHANGED <<QuizProps, now, pureVars, dashVars>>

\* one time unit passes; a timeout that is due fires before time moves on
Pass ==
    /\ now < MaxNow
    /\ NothingDue
    /\ now' = now + 1
    /\ SetQ([Q EXCEPT !.timerRef = IF @ = <<>> THEN @ ELSE <<[@[1] EXCEPT !.rem = @ - 1]>>, !.advances = [i \in 1..Len(@) |-> [@[i] EXCEPT !.rem = @ - 1]]])
    /\ UNCHANGED <<QuizProps, mounted, pureVars, dashVars>>

NextQuiz == TypeAnswer \/ Submit \/ Tick \/ Advance \/ PlayAgain \/ Close \/ Pass

\* ---- the session followed until its timeouts have run out
\* one time unit passes while a timeout is pending; a timeout that is due fires first
Elapse ==
    /\ timerRef # <<>> \/ advances # <<>>
    /\ NothingDue
    /\ now' = now + 1
    /\ SetQ([Q EXCEPT !.timerRef = IF @ = <<>> THEN @ ELSE <<[@[1] EXCEPT !.rem = @ - 1]>>, !.advances = [i \in 1..Len(@) |-> [@[i] EXCEPT !.rem = @ - 1]]])
    /\ UNCHANGED <<QuizProps, mounted, pureVars, dashVars>>

\* Play Again, clicked before the quiz clock reads MaxNow
PlayAgainEarly == now < MaxNow /\ PlayAgain

NextLive == TypeAnswer \/ Submit \/ Tick \/ Advance \/ PlayAgainEarly \/ Close \/ Elapse

(***************************************************************************)
(* Dashboard (Dashboard.tsx) and the card store behind the gateway         *)
(* (firestoreService.ts).  A gateway call is in flight from the moment a   *)
(* handler awaits it: the store applies or rejects it at some later        *)
(* instant, and the handler resumes after that.  An optional field of a    *)
(* card is <<>> when absent and <<v>> when present; revisionInterval 0     *)
(* stands for an absent one (convertDocToFlashcard maps 0 to undefined).   *)
(***************************************************************************)
MaxPending == 2
MaxCalls == 3
LegacyRevisionInterval == 7
Uid == "u1"
OtherUid == "u2"
WallStep == [hi |-> 1, lo |-> 250]
WallStart == [hi |-> 5, lo |-> 500]
DstShifts == {ZeroMs, [hi |-> 3600, lo |-> 0], [hi |-> -3600, lo |-> 0]}
FieldPool == {<<" ">>, <<"q", " ">>}
\* the interval field holds Number(e.target.value): 0 when the field is cleared
SettingsPool == {[interval |-> 1, unit |-> "days"], [interval |-> 0, unit |-> "months"]}
EditFront == <<"e">>
EditBack == <<"P", "a">>
\* what the edit fields of a card may hold when Save is clicked
EditFronts == {<<" ">>, <<" ">> \o EditFront}
EditBacks == {<<>>, EditBack \o <<" ">>}

StoredDoc(i, uid, interval, settings, t) ==
    [id |-> i, front |-> <<"f">>, back |-> <<"a">>, createdAt |-> [hi |-> t, lo |-> 0], userId |-> uid,
     nextRevision |-> <<[hi |-> 4, lo |-> 0]>>, revisionInterval |-> interval, revisionSettings |-> settings,
     lastReviewed |-> <<>>, reviewCount |-> 0, updatedAt |-> <<>>]
LegacyDoc == StoredDoc(1, Uid, 3, <<>>, 1)
ForeignDoc == StoredDoc(2, OtherUid, LegacyRevisionInterval, <<[interval |-> 1, unit |-> "days"]>>, 2)
InitStores == {{}, {LegacyDoc, ForeignDoc}}
FirstDocId == Cardinality({LegacyDoc, ForeignDoc}) + 1

\* a sequence holding the elements of a finite set of records, latest createdAt first
RECURSIVE CreatedDesc(_)
CreatedDesc(S) ==
    IF S = {} THEN <<>>
    ELSE LET d == CHOOSE x \in S : \A y \in S : MsLeq(y.createdAt, x.createdAt) /\ (y.createdAt = x.createdAt => y.id <= x.id)
         IN <<d>> \o CreatedDesc(S \ {d})

convertDocToFlashcard(d) ==
    [id |-> d.id, front |-> d.front, back |-> d.back, createdAt |-> d.createdAt, userId |-> d.userId,
     nextRevision |-> d.nextRevision, revisionInterval |-> d.revisionInterval, revisionSettings |-> d.revisionSettings,
     lastReviewed |-> d.lastReviewed, reviewCount |-> d.reviewCount]

\* the list getUserFlashcards resolves with
UserFlashcards(docs, uid) ==
    LET snap == CreatedDesc({d \in docs : d.userId = uid})
    IN [k \in 1..Len(snap) |-> convertDocToFlashcard(snap[k])]

NoCall ==
    [op |-> "none", status |-> "sent", id |-> 0, front |-> <<>>, back |-> <<>>, settings |-> [interval |-> 0, unit |-> "days"],
     interval |-> 0, nextRevision |-> ZeroMs, hasNext |-> TRUE, now |-> ZeroMs, uid |-> Uid, cardUid |-> Uid,
     attempts |-> 0, flashcards |-> <<>>, docs |-> <<>>]
LoadCall == [NoCall EXCEPT !.op = "load"]

ErrorMessage(op) ==
    CASE op = "load" -> "Failed to load flashcards. Please try again."
      [] op = "add" -> "Failed to add flashcard. Please try again."
      [] op = "update" -> "Failed to update flashcard. Please try again."
      [] op = "delete" -> "Failed to delete flashcard. Please try again."
      [] op = "revise" -> "Failed to mark flashcard as reviewed. Please try again."


Others == <<pureVars, quizVars, peer>>
CanCall == Len(pending) < MaxPending /\ issued < MaxCalls
Remove(s, i) == [k \in 1..(Len(s) - 1) |-> IF k < i THEN s[k] ELSE s[k + 1]]
InFlight(op) == {i \in 1..Len(pending) : pending[i].op = op /\ pending[i].status = "sent"}
Settled(op, st) == {i \in 1..Len(pending) : pending[i].op = op /\ pending[i].status = st}
GridUsable == ~loading /\ ~isModalOpen /\ CanCall

\* ---- the form of the create dialog
handleOpenModal ==
    /\ ~loading /\ ~isModalOpen
    /\ isModalOpen' = TRUE
    /\ UNCHANGED <<store, nextId, flashcards, newFront, newBack, revisionSettings, loading, error, pending, issued, wallClock, Others>>

handleCloseModal ==
    /\ isModalOpen
    /\ newFront' = <<>> /\ newBack' = <<>> /\ isModalOpen' = FALSE
    /\ UNCHANGED <<store, nextId, flashcards, revisionSettings, loading, error, pending, issued, wallClock, Others>>

setNewFront ==
    /\ isModalOpen
    /\ \E v \in FieldPool : newFront' = v
    /\ UNCHANGED <<store, nextId, flashcards, isModalOpen, newBack, revisionSettings, loading, error, pending, issued, wallClock, Others>>

setNewBack ==
    /\ isModalOpen
    /\ \E v \in FieldPool : newBack' = v
    /\ UNCHANGED <<store, nextId, flashcards, isModalOpen, newFront, revisionSettings, loading, error, pending, issued, wallClock, Others>>

setRevisionSettings ==
    /\ isModalOpen
    /\ \E s \in SettingsPool : revisionSettings' = s
    /\ UNCHANGED <<store, nextId, flashcards, isModalOpen, newFront, newBack, loading, error, pending, issued, wallClock, Others>>

closeError ==
    /\ error # "null"
    /\ error' = "null"
    /\ UNCHANGED <<store, nextId, flashcards, isModalOpen, newFront, newBack, revisionSettings, loading, pending, issued, wallClock, Others>>

\* ---- handlers up to their await
Issue(c) ==
    /\ loading' = TRUE
    /\ error' = "null"
    /\ pending' = Append(pending, [c EXCEPT !.flashcards = flashcards])
    /\ issued' = issued + 1
    /\ UNCHANGED <<store, nextId, flashcards, isModalOpen, newFront, newBack, revisionSettings, wallClock, Others>>

handleAddFlashcard ==
    /\ isModalOpen /\ CanCall
    /\ trim(newFront) # <<>> /\ trim(newBack) # <<>>
    /\ Issue([NoCall EXCEPT !.op = "add", !.front = trim(newFront), !.back = trim(newBack), !.settings = revisionSettings,
                            !.interval = LegacyRevisionInterval,
                            !.nextRevision = getNextRevisionDate(revisionSettings.interval, revisionSettings.unit, wallClock)])

\* Flashcard.handleSave: if (editFront.trim() && editBack.trim())
canSave_frontOnly(editFront, editBack) == trim(editFront) # <<>>

canSave(editFront, editBack) == trim(editFront) # <<>> /\ trim(editBack) # <<>>

\* Save on a card: handleSave calls onUpdate = handleUpdateFlashcard with the trimmed fields
handleUpdateFlashcard ==
    /\ GridUsable
    /\ \E k \in 1..Len(flashcards), editFront \in EditFronts, editBack \in EditBacks :
          /\ canSave(editFront, editBack)
          /\ Issue([NoCall EXCEPT !.op = "update", !.id = flashcards[k].id, !.front = trim(editFront), !.back = trim(editBack)])

handleDeleteFlashcard ==
    /\ GridUsable
    /\ \E k \in 1..Len(flashcards) : Issue([NoCall EXCEPT !.op = "delete", !.id = flashcards[k].id])

\* setDate(getDate() + days) moves the local calendar day: days * 24 h, shifted
\* by the change of the UTC offset when a daylight-saving switch lies between
setDateDays(clk, days, dst) == MsAdd(MsAdd(clk, MsTimes([hi |-> 86400, lo |-> 0], days)), dst)

markNextRevision_legacyOnly(flashcard, clk, dst) ==
    setDateDays(clk, IF flashcard.revisionInterval # 0 THEN flashcard.revisionInterval ELSE LegacyRevisionInterval, dst)

markNextRevision(flashcard, clk, dst) ==
    IF flashcard.revisionSettings # <<>>
    THEN getNextRevisionDate(flashcard.revisionSettings[1].interval, flashcard.revisionSettings[1].unit, clk)
    ELSE setDateDays(clk, IF flashcard.revisionInterval # 0 THEN flashcard.revisionInterval ELSE LegacyRevisionInterval, dst)

handleMarkReviewed ==
    /\ GridUsable
    /\ \E k \in 1..Len(flashcards), dst \in DstShifts :
          /\ flashcards[k].nextRevision # <<>>
          /\ flashcards[k].revisionSettings # <<>> => dst = ZeroMs
          /\ Issue([NoCall EXCEPT !.op = "revise", !.id = flashcards[k].id, !.now = wallClock,
                                  !.interval = IF flashcards[k].revisionInterval # 0 THEN flashcards[k].revisionInterval ELSE LegacyRevisionInterval,
                                  !.nextRevision = markNextRevision(flashcards[k], wallClock, dst)])

\* ---- the gateway calls, as the store settles them
\* a round trip to the store takes time: the clock has moved on when a call settles
RoundTrip == wallClock' = MsAdd(wallClock, WallStep)
\* the one request a gateway function sends, as the backing store answers it
resolved(c) == [c EXCEPT !.status = "ok", !.attempts = @ + 1]
rejected_retry(c) == [c EXCEPT !.attempts = @ + 1]
rejected(c) == [c EXCEPT !.status = "failed", !.attempts = @ + 1]
Resolve(i, c) == pending' = [pending EXCEPT ![i] = resolved(c)] /\ RoundTrip
DocOf(i) == {d \in store : d.id = pending[i].id}

getUserFlashcards ==
    \E i \in InFlight("load") :
        /\ Resolve(i, [pending[i] EXCEPT !.docs = UserFlashcards(store, pending[i].uid)])
        /\ UNCHANGED <<store, nextId, flashcards, isModalOpen, newFront, newBack, revisionSettings, loading, error, issued, Others>>

\* { ...flashcard, userId, createdAt: serverTimestamp(), reviewCount: 0 }
newDoc_cardOwner(c, i, clk) ==
    [id |-> i, front |-> c.front, back |-> c.back, createdAt |-> clk, userId |-> c.cardUid, nextRevision |-> <<c.nextRevision>>,
     revisionInterval |-> c.interval, revisionSettings |-> <<c.settings>>, lastReviewed |-> <<>>, reviewCount |-> 0, updatedAt |-> <<>>]

newDoc(c, i, clk) ==
    [id |-> i, front |-> c.front, back |-> c.back, createdAt |-> clk, userId |-> c.uid, nextRevision |-> <<c.nextRevision>>,
     revisionInterval |-> c.interval, revisionSettings |-> <<c.settings>>, lastReviewed |-> <<>>, reviewCount |-> 0, updatedAt |-> <<>>]

addFlashcard ==
    \E i \in InFlight("add") :
        /\ store' = store \cup {newDoc(pending[i], nextId, wallClock)}
        /\ nextId' = nextId + 1
        /\ Resolve(i, [pending[i] EXCEPT !.id = nextId])
        /\ UNCHANGED <<flashcards, isModalOpen, newFront, newBack, revisionSettings, loading, error, issued, Others>>

\* updateDoc(ref, { ...updates, updatedAt: serverTimestamp() }): the fields are overwritten, no version is read
updatedDoc_firstWriteWins(d, c, clk) ==
    IF d.updatedAt # <<>> THEN d ELSE [d EXCEPT !.front = c.front, !.back = c.back, !.updatedAt = <<clk>>]

updatedDoc(d, c, clk) == [d EXCEPT !.front = c.front, !.back = c.back, !.updatedAt = <<clk>>]

updateFlashcard ==
    \E i \in InFlight("update") :
        /\ DocOf(i) # {}
        /\ store' = (store \ DocOf(i)) \cup {updatedDoc(d, pending[i], wallClock) : d \in DocOf(i)}
        /\ Resolve(i, pending[i])
        /\ UNCHANGED <<nextId, flashcards, isModalOpen, newFront, newBack, revisionSettings, loading, error, issued, Others>>

deleteFlashcard ==
    \E i \in InFlight("delete") :
        /\ store' = store \ DocOf(i)
        /\ Resolve(i, pending[i])
        /\ UNCHANGED <<nextId, flashcards, isModalOpen, newFront, newBack, revisionSettings, loading, error, issued, Others>>

updateFlashcardRevision ==
    \E i \in InFlight("revise") :
        /\ DocOf(i) # {}
        /\ store' = (store \ DocOf(i)) \cup {[d EXCEPT !.revisionInterval = pending[i].interval, !.updatedAt = <<wallClock>>,
                                                       !.nextRevision = IF pending[i].hasNext THEN <<pending[i].nextRevision>> ELSE @] : d \in DocOf(i)}
        /\ Resolve(i, pending[i])
        /\ UNCHANGED <<nextId, flashcards, isModalOpen, newFront, newBack, revisionSettings, loading, error, issued, Others>>

updateFlashcardRevisionSettings ==
    \E i \in InFlight("settings") :
        /\ DocOf(i) # {}
        /\ store' = (store \ DocOf(i)) \cup {[d EXCEPT !.revisionSettings = <<pending[i].settings>>, !.updatedAt = <<wallClock>>,
                                                       !.nextRevision = IF pending[i].hasNext THEN <<pending[i].nextRevision>> ELSE @] : d \in DocOf(i)}
        /\ Resolve(i, pending[i])
        /\ UNCHANGED <<nextId, flashcards, isModalOpen, newFront, newBack, revisionSettings, loading, error, issued, Others>>

markFlashcardReviewed ==
    \E i \in InFlight("review") :
        /\ DocOf(i) # {}
        /\ store' = (store \ DocOf(i)) \cup {[d EXCEPT !.lastReviewed = <<pending[i].now>>, !.nextRevision = <<pending[i].nextRevision>>,
                                                       !.updatedAt = <<wallClock>>] : d \in DocOf(i)}
        /\ Resolve(i, pending[i])
        /\ UNCHANGED <<nextId, flashcards, isModalOpen, newFront, newBack, revisionSettings, loading, error, issued, Others>>

\* ---- the gateway called directly, by any signed-in client
Owners == {Uid, OtherUid}
KnownIds == {d.id : d \in store} \cup {nextId}
GatewaySetting == [interval |-> 2, unit |-> "weeks"]
GatewayEdits == {[front |-> EditFront, back |-> EditBack], [front |-> EditBack, back |-> EditFront]}
GatewayCalls ==
    {[NoCall EXCEPT !.op = "load", !.uid = u] : u \in Owners} \cup
    {[NoCall EXCEPT !.op = "add", !.uid = u, !.cardUid = v, !.front = EditFront, !.back = EditBack, !.settings = GatewaySetting,
                    !.interval = LegacyRevisionInterval,
                    !.nextRevision = getNextRevisionDate(GatewaySetting.interval, GatewaySetting.unit, wallClock)]
        : u \in Owners, v \in Owners}
    \cup {[NoCall EXCEPT !.op = "update", !.id = k, !.front = e.front, !.back = e.back] : k \in KnownIds, e \in GatewayEdits}
    \cup {[NoCall EXCEPT !.op = "delete", !.id = k] : k \in KnownIds}
    \cup {[NoCall EXCEPT !.op = "revise", !.id = k, !.interval = LegacyRevisionInterval, !.hasNext = h,
                         !.nextRevision = IF h THEN MsAdd(wallClock, WallStep) ELSE ZeroMs] : k \in KnownIds, h \in BOOLEAN}
    \cup {[NoCall EXCEPT !.op = "settings", !.id = k, !.settings = GatewaySetting,
                         !.nextRevision = getNextRevisionDate(GatewaySetting.interval, GatewaySetting.unit, wallClock)] : k \in KnownIds}
    \cup {[NoCall EXCEPT !.op = "review", !.id = k, !.interval = LegacyRevisionInterval, !.now = wallClock,
                         !.nextRevision = setDateDays(wallClock, LegacyRevisionInterval, ZeroMs)] : k \in KnownIds}

\* the calls a client of the gateway module may have outstanding or made
GatewayBudget == MaxCalls - 1

\* a client calls one of the gateway functions
Invoke ==
    /\ Len(pending) < MaxPending /\ issued < GatewayBudget
    /\ \E c \in GatewayCalls : pending' = Append(pending, c)
    /\ issued' = issued + 1
    /\ UNCHANGED <<store, nextId, flashcards, isModalOpen, newFront, newBack, revisionSettings, loading, error, wallClock, Others>>

\* the caller's await ends: with the value the call resolved to, or with the Error thrown
Returns ==
    /\ \E i \in 1..Len(pending) : pending[i].status # "sent" /\ pending' = Remove(pending, i)
    /\ UNCHANGED <<store, nextId, flashcards, isModalOpen, newFront, newBack, revisionSettings, loading, error, issued, wallClock, Others>>

\* the backing service is unreachable or rejects the call: the gateway rethrows
StoreRejects ==
    \E i \in 1..Len(pending) :
        /\ pending[i].status = "sent"
        /\ pending' = [pending EXCEPT ![i] = rejected(pending[i])]
        /\ RoundTrip
        /\ UNCHANGED <<store, nextId, flashcards, isModalOpen, newFront, newBack, revisionSettings, loading, error, issued, Others>>

\* ---- handlers after their await
reviewed(card, c) ==
    IF card.id = c.id
    THEN [card EXCEPT !.lastReviewed = <<c.now>>, !.nextRevision = <<c.nextRevision>>, !.reviewCount = @ + 1]
    ELSE card
edited_anyCard(card, c) == [card EXCEPT !.front = c.front, !.back = c.back]

edited(card, c) == IF card.id = c.id THEN [card EXCEPT !.front = c.front, !.back = c.back] ELSE card
newFlashcard(c, clk) ==
    [id |-> c.id, front |-> c.front, back |-> c.back, createdAt |-> clk, userId |-> Uid, nextRevision |-> <<c.nextRevision>>,
     revisionInterval |-> c.interval, revisionSettings |-> <<c.settings>>, lastReviewed |-> <<>>, reviewCount |-> 0]

\* the catch and finally blocks every handler shares
Caught(i) ==
    /\ error' = ErrorMessage(pending[i].op)
    /\ loading' = FALSE
    /\ pending' = Remove(pending, i)
    /\ UNCHANGED <<store, nextId, flashcards, isModalOpen, newFront, newBack, revisionSettings, issued, wallClock, Others>>

Finally(i) ==
    /\ loading' = FALSE
    /\ pending' = Remove(pending, i)
    /\ UNCHANGED <<store, nextId, error, revisionSettings, issued, wallClock, Others>>

loadFlashcardsResumes ==
    \E i \in Settled("load", "ok") :
        /\ flashcards' = pending[i].docs
        /\ Finally(i)
        /\ UNCHANGED <<isModalOpen, newFront, newBack>>

handleAddFlashcardResumes ==
    \E i \in Settled("add", "ok") :
        /\ flashcards' = <<newFlashcard(pending[i], wallClock)>> \o flashcards
        /\ newFront' = <<>> /\ newBack' = <<>> /\ isModalOpen' = FALSE
        /\ Finally(i)

handleUpdateFlashcardResumes ==
    \E i \in Settled("update", "ok") :
        /\ flashcards' = [k \in 1..Len(flashcards) |-> edited(flashcards[k], pending[i])]
        /\ Finally(i)
        /\ UNCHANGED <<isModalOpen, newFront, newBack>>

handleDeleteFlashcardResumes ==
    \E i \in Settled("delete", "ok") :
        /\ flashcards' = SelectSeq(flashcards, LAMBDA card : card.id # pending[i].id)
        /\ Finally(i)
        /\ UNCHANGED <<isModalOpen, newFront, newBack>>

handleMarkReviewedResumes ==
    \E i \in Settled("revise", "ok") :
        /\ flashcards' = [k \in 1..Len(flashcards) |-> reviewed(flashcards[k], pending[i])]
        /\ Finally(i)
        /\ UNCHANGED <<isModalOpen, newFront, newBack>>

HandlerCatches == \E i \in 1..Len(pending) : pending[i].status = "failed" /\ Caught(i)

NextDash ==
    \/ handleOpenModal \/ handleCloseModal \/ setNewFront \/ setNewBack \/ setRevisionSettings \/ closeError
    \/ handleAddFlashcard \/ handleUpdateFlashcard \/ handleDeleteFlashcard \/ handleMarkReviewed
    \/ getUserFlashcards \/ addFlashcard \/ updateFlashcard \/ deleteFlashcard \/ updateFlashcardRevision \/ StoreRejects
    \/ loadFlashcardsResumes \/ handleAddFlashcardResumes \/ handleUpdateFlashcardResumes \/ handleDeleteFlashcardResumes
    \/ handleMarkReviewedResumes \/ HandlerCatches

\* ---- the Dashboard of the same user on a second device
PeerOff == [status |-> "off", flashcards |-> <<>>]
PeerLoading == [status |-> "loading", flashcards |-> <<>>]

\* its load effect: getUserFlashcards(user.uid) resolves and setFlashcards(userFlashcards) runs
peerLoadFlashcards ==
    /\ peer.status = "loading"
    /\ peer' = [status |-> "loaded", flashcards |-> UserFlashcards(store, Uid)]
    /\ UNCHANGED <<store, nextId, flashcards, isModalOpen, newFront, newBack, revisionSettings, loading, error, pending, issued, wallClock, pureVars, quizVars>>

\* its load effect: the call is rejected, the catch sets the error and the list stays empty
peerLoadFails ==
    /\ peer.status = "loading"
    /\ peer' = [status |-> "failed", flashcards |-> <<>>]
    /\ UNCHANGED <<store, nextId, flashcards, isModalOpen, newFront, newBack, revisionSettings, loading, error, pending, issued, wallClock, pureVars, quizVars>>

NextSync ==
    \/ handleOpenModal \/ handleCloseModal \/ setNewFront \/ setNewBack \/ setRevisionSettings \/ closeError
    \/ handleAddFlashcard \/ handleUpdateFlashcard \/ handleDeleteFlashcard \/ handleMarkReviewed
    \/ getUserFlashcards \/ addFlashcard \/ updateFlashcard \/ deleteFlashcard \/ updateFlashcardRevision \/ StoreRejects
    \/ loadFlashcardsResumes \/ handleAddFlashcardResumes \/ handleUpdateFlashcardResumes \/ handleDeleteFlashcardResumes
    \/ handleMarkReviewedResumes \/ HandlerCatches
    \/ peerLoadFlashcards \/ peerLoadFails

\* what happens without anybody acting: the store answers every call, a handler whose
\* await has ended resumes, the load of the second device completes
StoreAnswers ==
    getUserFlashcards \/ addFlashcard \/ updateFlashcard \/ deleteFlashcard \/ updateFlashcardRevision \/ StoreRejects
HandlerResumes ==
    \/ loadFlashcardsResumes \/ handleAddFlashcardResumes \/ handleUpdateFlashcardResumes \/ handleDeleteFlashcardResumes
    \/ handleMarkReviewedResumes \/ HandlerCatches
PeerLoads == peerLoadFlashcards \/ peerLoadFails

\* ---- the Dashboard with the quiz it renders (Dashboard.tsx 363-368)
\* what Array.prototype.sort leaves in the array the prop refers to: the spread
\* [...flashcards] made a new array, so the sort rearranged the copy
sourceAfterSort_inPlace(source, sorted) == sorted

sourceAfterSort(source, sorted) == source

\* RapidFire renders with the array `cards` as its prop: the useMemo callback runs
Renders(cards) ==
    /\ shuffledFlashcards' \in Shuffles(cards)
    /\ shuffleCount' = shuffleCount + 1
    /\ flashcards' = sourceAfterSort(cards, shuffledFlashcards')
    /\ flashcardsProp' = flashcards'

\* the Rapid Fire button, clicked for the first time: setIsRapidFireOpen(true), RapidFire
\* mounts (the origin of the quiz clock) and its timer effect runs
OpenRapidFire ==
    /\ ~mounted /\ shuffleCount = 0 /\ now = 0
    /\ Len(flashcards) > 0 /\ ~loading /\ ~isModalOpen
    /\ mounted' = TRUE
    /\ Renders(flashcards)
    /\ SetQ(timerEffect(InitialQ(now)))
    /\ UNCHANGED <<store, nextId, isModalOpen, newFront, newBack, revisionSettings, loading, error, pending, issued, wallClock, peer, now, pureVars>>

\* handleAddFlashcard resumes while the quiz is open: setFlashcards(prev => [newFlashcard, ...prev]),
\* the Dashboard renders and hands the new array to RapidFire, whose memo is computed again
handleAddFlashcardResumesOpen ==
    /\ mounted
    /\ \E i \in Settled("add", "ok") :
          /\ Renders(<<newFlashcard(pending[i], wallClock)>> \o flashcards)
          /\ newFront' = <<>> /\ newBack' = <<>> /\ isModalOpen' = FALSE
          /\ loading' = FALSE
          /\ pending' = Remove(pending, i)
    /\ UNCHANGED <<store, nextId, error, revisionSettings, issued, wallClock, peer, pureVars, mounted, now,
                   currentIndex, userAnswer, showAnswer, isCorrect, score, timeLeft, gameState, result, startTime, timerRef, advances>>

\* the same continuation while no quiz is open
handleAddFlashcardResumesClosed == ~mounted /\ handleAddFlashcardResumes

\* a create whose form was submitted twice on a dashboard that had loaded the cards of
\* `base`: the first call, already resumed, and the second, which the store accepted too
AppCreate(base) ==
    [NoCall EXCEPT !.op = "add", !.front = <<"q">>, !.back = EditBack, !.settings = [interval |-> 1, unit |-> "days"],
                   !.interval = LegacyRevisionInterval,
                   !.nextRevision = getNextRevisionDate(1, "days", WallStart),
                   !.flashcards = UserFlashcards(base, Uid)]
AppCreated(base) == resolved([AppCreate(base) EXCEPT !.id = FirstDocId + 1])
AppStore(base) == base \cup {newDoc(AppCreate(base), FirstDocId, MsAdd(WallStart, WallStep))}
AppFlashcards(base) ==
    <<newFlashcard([AppCreate(base) EXCEPT !.id = FirstDocId], MsAdd(WallStart, WallStep))>> \o UserFlashcards(base, Uid)

NextApp ==
    \/ OpenRapidFire \/ TypeAnswer \/ Submit \/ Tick \/ Advance \/ PlayAgain \/ Close \/ Pass
    \/ handleAddFlashcardResumesOpen \/ handleAddFlashcardResumesClosed

(***************************************************************************)
(* The specifications.  Each starts with the variables of the other two   *)
(* at rest and leaves them there.                                          *)
(***************************************************************************)
\* one call of a pure function about to be made; no component is mounted
InitPure ==
    /\ call \in NextRevisionCalls \cup TimeUntilCalls \cup GradeCalls \cup ExampleCalls
    /\ ret = NoReturn
    /\ flashcardsProp = <<>> /\ shuffledFlashcards = <<>> /\ shuffleCount = 0 /\ mounted = FALSE
    /\ currentIndex = 0 /\ userAnswer = <<>> /\ showAnswer = FALSE /\ isCorrect = "null" /\ score = 0
    /\ timeLeft = QuestionSeconds /\ gameState = "playing" /\ result = <<>> /\ startTime = 0
    /\ timerRef = <<>> /\ advances = <<>> /\ now = 0
    /\ store = {} /\ nextId = FirstDocId /\ flashcards = <<>> /\ isModalOpen = FALSE /\ newFront = <<>> /\ newBack = <<>>
    /\ revisionSettings = [interval |-> LegacyRevisionInterval, unit |-> "days"] /\ loading = TRUE /\ error = "null"
    /\ pending = <<>> /\ issued = 0 /\ wallClock = ZeroMs /\ peer = PeerOff

\* RapidFire after mounting: useState initial values, the memo computed, the effect run once
InitQuiz ==
    /\ flashcardsProp \in CardSets
    /\ shuffledFlashcards \in Shuffles(flashcardsProp)
    /\ shuffleCount = 1
    /\ mounted = TRUE
    /\ currentIndex = 0
    /\ userAnswer = <<>>
    /\ showAnswer = FALSE
    /\ isCorrect = "null"
    /\ score = 0
    /\ timeLeft = QuestionSeconds
    /\ gameState = "playing"
    /\ result = <<>>
    /\ startTime = 0
    /\ timerRef = <<[rem |-> TickDelay, timeLeft |-> QuestionSeconds]>>
    /\ advances = <<>>
    /\ now = 0
    /\ call = NoCallMade /\ ret = NoReturn
    /\ store = {} /\ nextId = FirstDocId /\ flashcards = <<>> /\ isModalOpen = FALSE /\ newFront = <<>> /\ newBack = <<>>
    /\ revisionSettings = [interval |-> LegacyRevisionInterval, unit |-> "days"] /\ loading = TRUE /\ error = "null"
    /\ pending = <<>> /\ issued = 0 /\ wallClock = ZeroMs /\ peer = PeerOff

\* Dashboard after mounting: the load effect has run up to its await
InitDash ==
    /\ store \in InitStores
    /\ nextId = FirstDocId
    /\ flashcards = <<>>
    /\ isModalOpen = FALSE
    /\ newFront = <<>> /\ newBack = <<>>
    /\ revisionSettings = [interval |-> LegacyRevisionInterval, unit |-> "days"]
    /\ loading = TRUE
    /\ error = "null"
    /\ pending = <<LoadCall>>
    /\ issued = 1
    /\ wallClock = WallStart
    /\ peer = PeerOff
    /\ call = NoCallMade /\ ret = NoReturn
    /\ flashcardsProp = <<>> /\ shuffledFlashcards = <<>> /\ shuffleCount = 0 /\ mounted = FALSE
    /\ currentIndex = 0 /\ userAnswer = <<>> /\ showAnswer = FALSE /\ isCorrect = "null" /\ score = 0
    /\ timeLeft = QuestionSeconds /\ gameState = "playing" /\ result = <<>> /\ startTime = 0
    /\ timerRef = <<>> /\ advances = <<>> /\ now = 0

\* the card store with clients calling the gateway functions; no component is mounted
InitStore ==
    /\ store \in InitStores /\ nextId = FirstDocId /\ pending = <<>> /\ issued = 0 /\ wallClock = WallStart /\ peer = PeerOff
    /\ flashcards = <<>> /\ isModalOpen = FALSE /\ newFront = <<>> /\ newBack = <<>>
    /\ revisionSettings = [interval |-> LegacyRevisionInterval, unit |-> "days"] /\ loading = TRUE /\ error = "null"
    /\ call = NoCallMade /\ ret = NoReturn
    /\ flashcardsProp = <<>> /\ shuffledFlashcards = <<>> /\ shuffleCount = 0 /\ mounted = FALSE
    /\ currentIndex = 0 /\ userAnswer = <<>> /\ showAnswer = FALSE /\ isCorrect = "null" /\ score = 0
    /\ timeLeft = QuestionSeconds /\ gameState = "playing" /\ result = <<>> /\ startTime = 0
    /\ timerRef = <<>> /\ advances = <<>> /\ now = 0

\* the Dashboard mounted on two devices of the same user, both loads awaited
InitSync ==
    /\ store \in InitStores
    /\ nextId = FirstDocId
    /\ flashcards = <<>>
    /\ isModalOpen = FALSE
    /\ newFront = <<>> /\ newBack = <<>>
    /\ revisionSettings = [interval |-> LegacyRevisionInterval, unit |-> "days"]
    /\ loading = TRUE
    /\ error = "null"
    /\ pending = <<LoadCall>>
    /\ issued = 1
    /\ wallClock = WallStart
    /\ peer = PeerLoading
    /\ call = NoCallMade /\ ret = NoReturn
    /\ flashcardsProp = <<>> /\ shuffledFlashcards = <<>> /\ shuffleCount = 0 /\ mounted = FALSE
    /\ currentIndex = 0 /\ userAnswer = <<>> /\ showAnswer = FALSE /\ isCorrect = "null" /\ score = 0
    /\ timeLeft = QuestionSeconds /\ gameState = "playing" /\ result = <<>> /\ startTime = 0
    /\ timerRef = <<>> /\ advances = <<>> /\ now = 0

\* the Dashboard after its load and one create, the create dialog closed, no quiz open;
\* the handler of a second create of the same submission, which the store has accepted
\* too, may not have resumed yet
InitApp ==
    /\ \E base \in InitStores :
          /\ flashcards = AppFlashcards(base)
          /\ \/ pending = <<>> /\ store = AppStore(base) /\ nextId = FirstDocId + 1
             \/ /\ base = {}
                /\ pending = <<AppCreated(base)>>
                /\ store = AppStore(base) \cup {newDoc(AppCreate(base), FirstDocId + 1, MsAdd(WallStart, MsTimes(WallStep, 2)))}
                /\ nextId = FirstDocId + 2
    /\ isModalOpen = FALSE
    /\ newFront = <<>> /\ newBack = <<>>
    /\ revisionSettings = [interval |-> 1, unit |-> "days"]
    /\ loading = FALSE
    /\ error = "null"
    /\ issued = 2 + Len(pending)
    /\ wallClock = MsAdd(WallStart, MsTimes(WallStep, 2 + Len(pending)))
    /\ peer = PeerOff
    /\ call = NoCallMade /\ ret = NoReturn
    /\ flashcardsProp = <<>> /\ shuffledFlashcards = <<>> /\ shuffleCount = 0 /\ mounted = FALSE
    /\ currentIndex = 0 /\ userAnswer = <<>> /\ showAnswer = FALSE /\ isCorrect = "null" /\ score = 0
    /\ timeLeft = QuestionSeconds /\ gameState = "playing" /\ result = <<>> /\ startTime = 0
    /\ timerRef = <<>> /\ advances = <<>> /\ now = 0

NextStore ==
    \/ Invoke \/ Returns \/ StoreRejects
    \/ getUserFlashcards \/ addFlashcard \/ updateFlashcard \/ deleteFlashcard
    \/ updateFlashcardRevision \/ updateFlashcardRevisionSettings \/ markFlashcardReviewed

NextPure == CallGetNextRevisionDate \/ CallGetTimeUntilRevision \/ CallHandleSubmit

SpecPure == InitPure /\ [][NextPure]_vars
SpecQuiz == InitQuiz /\ [][NextQuiz]_vars
SpecDash == InitDash /\ [][NextDash]_vars
SpecStore == InitStore /\ [][NextStore]_vars
\* timeouts that are due fire, and time passes while one is pending
SpecLive == InitQuiz /\ [][NextLive]_vars /\ WF_vars(Tick) /\ WF_vars(Advance) /\ WF_vars(Elapse)
\* the dashboard with every store call answered and every handler resumed
SpecDashFair == InitDash /\ [][NextDash]_vars /\ WF_vars(StoreAnswers) /\ WF_vars(HandlerResumes)
SpecApp == InitApp /\ [][NextApp]_vars
SpecSync ==
    InitSync /\ [][NextSync]_vars /\ WF_vars(StoreAnswers) /\ WF_vars(HandlerResumes) /\ WF_vars(PeerLoads)



(***************************************************************************)
(* Claims about the pure functions (SpecPure)                              *)
(***************************************************************************)
\* the fixed table of the unit lengths, each unit built from the one below it
SecondMs == MsOfInt(1000)
MinuteMs == MsTimes(SecondMs, 60)
HourMs == MsTimes(MinuteMs, 60)
DayMs == MsTimes(HourMs, 24)
WeekMs == MsTimes(DayMs, 7)
MonthMs == MsTimes(DayMs, 30)
UnitMs(u) == CASE u = "seconds" -> SecondMs [] u = "minutes" -> MinuteMs [] u = "hours" -> HourMs [] u = "days" -> DayMs [] u = "weeks" -> WeekMs [] u = "months" -> MonthMs

\* C1: getNextRevisionDate(i, u) evaluated at clock reading t returns exactly
\* t + i * ms(u), ms being the fixed table (a day is 86 400 000 ms, a month 30 days).
C1_NextRevisionDate ==
    /\ DayMs = [hi |-> 86400, lo |-> 0] /\ MonthMs = [hi |-> 2592000, lo |-> 0]
    /\ (call.fn = "getNextRevisionDate" /\ ret.done) =>
            /\ MsSub(ret.date, call.clock) = MsTimes(UnitMs(call.unit), call.interval)
            /\ ret.date.lo = call.clock.lo
            /\ ret.date.hi = call.clock.hi + call.interval * UnitMs(call.unit).hi

\* a due date some months ahead of a clock reading that is not a whole second
C1_Witness == call.fn = "getNextRevisionDate" /\ ret.done /\ call.unit = "months" /\ call.interval > 1 /\ call.clock.lo > 0 /\ ret.date.hi > 5000000

\* x occurs in y as a contiguous run of characters
Occurs(x, y) == \E i \in 0..Len(y) : \E j \in i..Len(y) : SubSeq(y, i + 1, j) = x
\* s lower-cased, without its leading and trailing white space
Normal(s) ==
    LET low == [k \in 1..Len(s) |-> IF s[k] = "A" THEN "a" ELSE IF s[k] = "P" THEN "p" ELSE IF s[k] = "R" THEN "r" ELSE IF s[k] = "B" THEN "b" ELSE s[k]]
        inked == {k \in 1..Len(s) : low[k] \notin {" ", "\t", "\n"}}
    IN  IF inked = {} THEN <<>> ELSE SubSeq(low, CHOOSE k \in inked : \A m \in inked : k <= m, CHOOSE k \in inked : \A m \in inked : k >= m)

\* C10: a submitted answer that is not empty after trimming is graded, and graded correct
\* exactly when, both strings lower-cased and trimmed, the answer equals the back text,
\* or occurs in it, or the back text occurs in the answer; Paris/paris and Paris/pari are
\* correct, Paris/Rome is incorrect, a/cat is correct.
C10_Grading ==
    (call.fn = "handleSubmit" /\ ret.done) =>
        /\ ret.graded = (Normal(call.answer) # <<>>)
        /\ ret.graded => (ret.correct = (Normal(call.answer) = Normal(call.back) \/ Occurs(Normal(call.answer), Normal(call.back)) \/ Occurs(Normal(call.back), Normal(call.answer))))
        /\ (call.back = Paris /\ call.answer \in {<<"p", "a", "r", "i", "s">>, <<"p", "a", "r", "i">>}) => (ret.graded /\ ret.correct)
        /\ (call.back = Paris /\ call.answer = <<"R", "o", "m", "e">>) => (ret.graded /\ ~ret.correct)
        /\ (call.back = <<"a">> /\ call.answer = <<"c", "a", "t">>) => (ret.graded /\ ret.correct)

\* an answer graded correct only because it contains the back text
C10_Witness == call.fn = "handleSubmit" /\ ret.done /\ ret.graded /\ ret.correct /\ Len(Normal(call.back)) > 0 /\ Len(Normal(call.answer)) > Len(Normal(call.back)) /\ call.back # <<"a">>

\* the distance from the clock to the due date of a call, and its whole count of a unit
Ahead == MsSub(call.due, call.clock)
IsAhead == Ahead.hi > 0 \/ (Ahead.hi = 0 /\ Ahead.lo > 0)
Whole(u) == Ahead.hi \div UnitMs(u).hi
Singular(u) == CASE u = "seconds" -> "second" [] u = "minutes" -> "minute" [] u = "hours" -> "hour" [] u = "days" -> "day" [] u = "weeks" -> "week" [] u = "months" -> "month"
Larger(u) ==
    CASE u = "seconds" -> {"minutes", "hours", "days", "weeks", "months"} [] u = "minutes" -> {"hours", "days", "weeks", "months"}
      [] u = "hours" -> {"days", "weeks", "months"} [] u = "days" -> {"weeks", "months"} [] u = "weeks" -> {"months"} [] u = "months" -> {}

\* C12: getTimeUntilRevision(d) evaluated at clock reading now returns value 0 with unit
\* 'overdue' for every d <= now and never the unit 'overdue' for d > now.
C12_Overdue ==
    (call.fn = "getTimeUntilRevision" /\ ret.done) =>
        /\ ~IsAhead => (ret.value = 0 /\ ret.unit = "overdue")
        /\ IsAhead => ret.unit # "overdue"

\* a due date that is exactly the clock reading, reported overdue
C12_Witness == call.fn = "getTimeUntilRevision" /\ ret.done /\ call.due = call.clock /\ call.clock.lo > 0 /\ ret.unit = "overdue"

\* C13: for d > now the unit reported is the largest of month (30 days), week, day, hour,
\* minute, second whose whole count in d - now is at least 1 (seconds when none is), the
\* value is that count, the label is singular exactly when the value is 1, value * ms(unit)
\* does not exceed d - now, and d = now + 90 s gives {1, minute}.
C13_LargestUnit ==
    (call.fn = "getTimeUntilRevision" /\ ret.done /\ IsAhead) =>
        /\ \E u \in TimeUnits :
              /\ ret.unit = (IF ret.value = 1 THEN Singular(u) ELSE u)
              /\ ret.value = Whole(u)
              /\ Whole(u) >= 1 \/ (u = "seconds" /\ \A v \in TimeUnits : Whole(v) = 0)
              /\ \A v \in Larger(u) : Whole(v) = 0
              /\ MsLeq(MsTimes(UnitMs(u), ret.value), Ahead)
        /\ Ahead = MsOfInt(90000) => (ret.value = 1 /\ ret.unit = "minute")

\* a due date 35 days and a little ahead: one month, although it is five whole weeks
C13_Witness == call.fn = "getTimeUntilRevision" /\ ret.done /\ Whole("weeks") = 5 /\ call.clock.lo > 0 /\ ret.value = 1 /\ ret.unit = "month"

(***************************************************************************)
(* Claims about the quiz session (SpecQuiz)                                *)
(***************************************************************************)
\* Math.round(correct / total * 100), NaN when total is 0
ExpectedAccuracy(correct, total) == IF total = 0 THEN [nan |-> TRUE, value |-> 0] ELSE [nan |-> FALSE, value |-> (200 * correct + total) \div (2 * total)]

\* C2: when the session is Finished, the reported result counts every question graded
\* correct (result.correct is the accumulated score), total is the size of the card set
\* and accuracy is round(correct / total * 100).
C2_ResultReportsScore ==
    (mounted /\ gameState = "finished" /\ result # <<>>) =>
        /\ result[1].correct = score
        /\ result[1].total = Len(flashcardsProp)
        /\ result[1].accuracy = ExpectedAccuracy(score, Len(flashcardsProp))

\* C3: once the quiz is closed no deferred callback of the session is pending, neither
\* the one-second countdown timeout nor a two-second auto-advance.
C3_CloseCancelsCallbacks == ~mounted => (timerRef = <<>> /\ advances = <<>>)

\* C6: Play Again re-enters Playing with cursor 0, score 0, countdown 30, no result, a
\* new start time and a newly drawn order of the cards (the shuffle runs again).
C6_PlayAgainReshuffles ==
    [][PlayAgain =>
        /\ gameState' = "playing" /\ currentIndex' = 0 /\ score' = 0
        /\ timeLeft' = QuestionSeconds /\ result' = <<>>
        /\ startTime' = now /\ startTime' # startTime
        /\ shuffleCount' = shuffleCount + 1]_vars

\* C7: a session over an empty card set is never Playing, its countdown never runs and
\* no time-up or advance is ever scheduled for it.
C7_EmptySetNeverPlays ==
    (mounted /\ Len(flashcardsProp) = 0) =>
        /\ gameState # "playing"
        /\ timerRef = <<>> /\ timeLeft = QuestionSeconds
        /\ ~showAnswer /\ advances = <<>>

\* C8: while Playing the countdown starts at 30 and a pending one-time-unit timeout
\* carries it down by exactly one per firing; the firing that brings it to zero leaves
\* the score alone, reveals the answer as incorrect and schedules the advance of the
\* current question, and a question whose time is up has its advance pending until the
\* session is past it; every advance leaves the session Finished or one past the
\* question it was scheduled on.
C8_CountdownInv ==
    /\ (mounted /\ now = 0) => timeLeft = QuestionSeconds
    /\ (mounted /\ gameState = "playing" /\ timeLeft > 0) =>
            (timerRef # <<>> /\ timerRef[1].timeLeft = timeLeft /\ timerRef[1].rem <= TickDelay)
    /\ (mounted /\ gameState = "playing" /\ timeLeft = 0) =>
            (showAnswer /\ isCorrect = "false" /\ \E i \in 1..Len(advances) : advances[i].currentIndex = currentIndex)

C8_CountdownStep ==
    /\ Tick =>
        /\ gameState = "playing" /\ timeLeft' = timeLeft - 1 /\ score' = score
        /\ timeLeft' = 0 =>
            /\ showAnswer' /\ isCorrect' = "false"
            /\ Len(advances') = Len(advances) + 1
            /\ advances'[Len(advances')].currentIndex = currentIndex /\ advances'[Len(advances')].rem = AdvanceDelay
    /\ (mounted /\ Advance) => (gameState' = "finished" \/ currentIndex' = advances[1].currentIndex + 1)
    /\ (mounted /\ gameState = "playing" /\ timeLeft' # timeLeft) => (timeLeft' = timeLeft - 1 \/ timeLeft' = QuestionSeconds)

C8_Countdown == [](C8_CountdownInv) /\ [][C8_CountdownStep]_vars

\* the countdown of the second question has run out and the question is shown as incorrect
C8_Witness == mounted /\ Len(flashcardsProp) > 0 /\ gameState = "playing" /\ timeLeft = 0 /\ currentIndex = 1 /\ showAnswer /\ isCorrect = "false" /\ advances # <<>>

\* C9: an advance step taken while the cursor is c over n cards finishes the session
\* with a result when c + 1 = n, and otherwise moves the cursor to c + 1, resets the
\* countdown to 30, clears the typed answer and the feedback and keeps the score.
C9_AdvanceStep ==
    [][(mounted /\ Len(flashcardsProp) > 0 /\ Advance) =>
        IF currentIndex + 1 = Len(flashcardsProp)
        THEN gameState' = "finished" /\ result' # <<>> /\ result'[1].total = Len(flashcardsProp) /\ score' = score
        ELSE /\ gameState' = gameState /\ currentIndex' = currentIndex + 1
             /\ timeLeft' = QuestionSeconds /\ userAnswer' = <<>>
             /\ ~showAnswer' /\ isCorrect' = "null" /\ score' = score]_vars

(***************************************************************************)
(* Claims about the dashboard and the card store (SpecDash)                *)
(***************************************************************************)
\* the call whose handler resumes in this step
Resumed(i) == i \in 1..Len(pending) /\ pending[i].status # "sent" /\ pending' = Remove(pending, i)

\* C4: when a store operation issued by the dashboard (initial list, create, edit,
\* delete, mark-reviewed) fails, the in-memory card list is exactly the list of the
\* moment the operation was issued, an error message is set, the loading flag is false
\* and a further operation can be started.
C4_FailureLeavesList ==
    [][\A i \in 1..Len(pending) :
          (Resumed(i) /\ pending[i].status = "failed") =>
              /\ flashcards' = pending[i].flashcards
              /\ error' # "null"
              /\ loading' = FALSE
              /\ isModalOpen' \/ ~loading']_vars

\* C5: when the handler of a mark-reviewed issued at clock reading t resumes after the
\* store accepted the write, the marked card, if it carries a revision setting, has
\* lastReviewed = t, next-due date = t + interval * ms(unit) of its own setting and a
\* review counter one higher, and no other card changes; a card with interval 1, unit
\* days that was marked once at t is due at t + 86 400 000 ms with reviewCount 1.
C5_Marked(i) ==
    \A k \in 1..Len(flashcards) :
        IF flashcards[k].id = pending[i].id
        THEN flashcards[k].revisionSettings # <<>> =>
                /\ flashcards'[k].lastReviewed = <<pending[i].now>>
                /\ flashcards'[k].nextRevision = <<MsAdd(pending[i].now, MsTimes(UnitMs(flashcards[k].revisionSettings[1].unit), flashcards[k].revisionSettings[1].interval))>>
                /\ flashcards'[k].reviewCount = flashcards[k].reviewCount + 1
                /\ flashcards'[k].revisionSettings = flashcards[k].revisionSettings
        ELSE flashcards'[k] = flashcards[k]

C5_Step ==
    /\ \A i \in 1..Len(pending) :
          (Resumed(i) /\ pending[i].op = "revise" /\ pending[i].status = "ok") =>
              (Len(flashcards') = Len(flashcards) /\ C5_Marked(i))
    /\ (Len(pending') = Len(pending) + 1 /\ pending'[Len(pending')].op = "revise") =>
              pending'[Len(pending')].now = wallClock

C5_Example ==
    \A k \in 1..Len(flashcards) :
        (flashcards[k].revisionSettings = <<[interval |-> 1, unit |-> "days"]>> /\ flashcards[k].reviewCount = 1) =>
            /\ flashcards[k].lastReviewed # <<>>
            /\ flashcards[k].nextRevision = <<MsAdd(flashcards[k].lastReviewed[1], MsOfInt(86400000))>>

C14_OneAttempt ==
    \A i \in 1..Len(pending) :
        /\ pending[i].attempts <= 1
        /\ pending[i].attempts = 1 <=> pending[i].status \in {"ok", "failed"}
        /\ pending[i].status = "failed" => (pending[i].docs = <<>> /\ (pending[i].op = "add" => pending[i].id = 0))

\* a rejected step changes nothing in the store
C14_RejectStep ==
    (\E i \in 1..Len(pending) : Len(pending') = Len(pending) /\ pending[i].status = "sent" /\ pending'[i].status = "failed")
        => (store' = store /\ nextId' = nextId)

C14_SingleStoreCall == [](C14_OneAttempt) /\ [][C14_RejectStep]_vars

\* a create and a list were both rejected by the store
C14_Witness ==
    \E i, j \in 1..Len(pending) :
        /\ pending[i].op = "add" /\ pending[i].status = "failed" /\ pending[i].attempts = 1
        /\ pending[j].op = "load" /\ pending[j].status = "failed" /\ pending[j].attempts = 1

\* C15: the list getUserFlashcards(u) resolves with holds exactly the stored documents
\* whose userId is u, each once, latest createdAt first; a document created by
\* addFlashcard(card, u) is stored with userId = u whatever the card carried, and no
\* write changes the userId of a stored document.
C15_Listed(i) ==
    LET r == pending'[i].docs
        mine == {d \in store : d.userId = pending[i].uid}
    IN /\ {r[k] : k \in 1..Len(r)} = {convertDocToFlashcard(d) : d \in mine}
       /\ Len(r) = Cardinality(mine)
       /\ \A k \in 1..(Len(r) - 1) : MsLeq(r[k + 1].createdAt, r[k].createdAt)
       /\ \A k \in 1..Len(r) : r[k].userId = pending[i].uid

C15_Step ==
    /\ \A i \in 1..Len(pending) :
          (Len(pending') = Len(pending) /\ pending[i].op = "load" /\ pending[i].status = "sent" /\ pending'[i].status = "ok")
              => C15_Listed(i)
    /\ \A i \in 1..Len(pending) :
          (Len(pending') = Len(pending) /\ pending[i].op = "add" /\ pending[i].status = "sent" /\ pending'[i].status = "ok")
              => \E d \in store' \ store : d.id = pending'[i].id /\ d.userId = pending[i].uid /\ store' = store \cup {d}
    /\ \A d \in store, e \in store' : d.id = e.id => d.userId = e.userId

C15_ListByOwner == [][C15_Step]_vars

\* a card that carried another owner was created for u, and the list of u returned it
\* while the store also held cards of another owner
C15_Witness ==
    \E i, j \in 1..Len(pending) :
        /\ pending[i].op = "add" /\ pending[i].status = "ok" /\ pending[i].cardUid # pending[i].uid
        /\ pending[j].op = "load" /\ pending[j].status = "ok" /\ pending[j].uid = pending[i].uid
        /\ \E k \in 1..Len(pending[j].docs) : pending[j].docs[k].id = pending[i].id
        /\ \E d \in store : d.userId # pending[i].uid

(***************************************************************************)
(* Claims about validation and the loading flag of the dashboard (SpecDash)*)
(***************************************************************************)
\* the call a handler issues in this step, if it issues one
IssuedCall == pending'[Len(pending')]
Issues(op) == Len(pending') = Len(pending) + 1 /\ IssuedCall.op = op

NonBlank(s) == trim(s) # <<>> /\ trim(s) = s

\* C16: every create or edit call the dashboard issues carries a front and a back that
\* are trimmed and non-empty (the create call those of the form, trimmed), so a create
\* or a save with a blank field issues no call and, unless the handler of an earlier call
\* resumes, leaves the card list as it is; every stored document and every card of the
\* in-memory list has a non-empty trimmed front and back.
C16_IssueStep ==
    /\ (Issues("add") \/ Issues("update")) => (NonBlank(IssuedCall.front) /\ NonBlank(IssuedCall.back))
    /\ Issues("add") => (IssuedCall.front = trim(newFront) /\ IssuedCall.back = trim(newBack))
    /\ (isModalOpen /\ (trim(newFront) = <<>> \/ trim(newBack) = <<>>)) =>
            (Len(pending') <= Len(pending) /\ (Len(pending') = Len(pending) => flashcards' = flashcards))

C16_Stored ==
    /\ \A d \in store : NonBlank(d.front) /\ NonBlank(d.back)
    /\ \A k \in 1..Len(flashcards) : NonBlank(flashcards[k].front) /\ NonBlank(flashcards[k].back)

C16_NonEmptyFields == [](C16_Stored) /\ [][C16_IssueStep]_vars

\* a card was created from a padded field, a card was edited, and the create dialog is
\* open again with a blank front
C16_Witness ==
    /\ isModalOpen /\ newFront = <<" ">>
    /\ \E d \in store : d.id >= FirstDocId /\ d.front = <<"q">>
    /\ \E d \in store : d.updatedAt # <<>> /\ d.front = EditFront /\ d.back = EditBack

\* C17: every revision setting stored with a card has an interval that is a positive
\* integer, at most 999, and a unit among seconds, minutes, hours, days, weeks, months
\* (so a create whose interval is zero does not persist a card).
C17_ValidSettings ==
    \A d \in store :
        d.revisionSettings # <<>> =>
            (d.revisionSettings[1].interval \in 1..999 /\ d.revisionSettings[1].unit \in TimeUnits)

\* C18: whenever a store call issued by the dashboard has not been answered or its handler
\* has not resumed yet, the loading flag is true.
C18_LoadingWhilePending == pending # <<>> => loading

(***************************************************************************)
(* Claims about two devices of one user (SpecSync)                         *)
(***************************************************************************)
PeerShowsStore == peer.flashcards = UserFlashcards(store, Uid)

\* C19: whenever the loaded dashboard of the second device shows a card list that differs
\* from the user's stored cards (the first device created, edited or deleted a card),
\* it eventually shows the stored cards again, without reloading.
C19_RealTimeSync == (peer.status = "loaded" /\ ~PeerShowsStore) ~> PeerShowsStore

(***************************************************************************)
(* Claims about the quiz inside the dashboard (SpecApp)                    *)
(***************************************************************************)
\* the sequences a and b hold the same cards, each as often
SameCards(a, b) ==
    /\ Len(a) = Len(b)
    /\ \A x \in {a[k] : k \in 1..Len(a)} \cup {b[k] : k \in 1..Len(b)} :
          Cardinality({k \in 1..Len(a) : a[k] = x}) = Cardinality({k \in 1..Len(b) : b[k] = x})

\* C11: the order in which an open quiz session presents cards is a permutation of the
\* card set it was opened with: the shuffled order holds the cards of the prop the
\* session received, each once, and keeps holding exactly these cards while it is open.
C11_Permutation ==
    /\ [](mounted => SameCards(shuffledFlashcards, flashcardsProp))
    /\ [][(mounted /\ mounted') => SameCards(shuffledFlashcards', shuffledFlashcards)]_vars

\* C20: no step of a quiz session (opening, typing, submit, tick, time-up, advance, play
\* again, close) changes the store, the calls awaited, the dashboard's card list or a
\* field of one of its cards; a render of the quiz that shuffles again leaves the
\* dashboard's list as the dashboard's own handler set it (the cards it had, the created
\* card in front).
C20_Step ==
    /\ (Q' # Q \/ mounted' # mounted) =>
          (store' = store /\ nextId' = nextId /\ pending' = pending /\ issued' = issued /\ flashcards' = flashcards)
    /\ shuffleCount' # shuffleCount =>
          /\ store' = store /\ nextId' = nextId /\ issued' = issued
          /\ \/ flashcards' = flashcards /\ pending' = pending
             \/ Len(pending') < Len(pending) /\ Tail(flashcards') = flashcards

C20_QuizFrame == [][C20_Step]_vars

\* a session that was shuffled into another order than the dashboard's has been played
\* to its results screen, the dashboard's list still in its own order
C20_Witness ==
    /\ mounted /\ gameState = "finished" /\ result # <<>>
    /\ shuffledFlashcards # flashcards /\ SameCards(shuffledFlashcards, flashcards)
    /\ Len(flashcards) >= 2

(***************************************************************************)
(* Claims about concurrent writers of one card (SpecStore)                 *)
(***************************************************************************)
\* the gateway call i, awaited before this step, is accepted by the store in this step
Accepted(i, op) ==
    Len(pending') = Len(pending) /\ pending[i].op = op /\ pending[i].status = "sent" /\ pending'[i].status = "ok"

\* C21: an edit the store accepts is applied whatever other edits of the same card are
\* awaited or were applied before it (no version is compared, no conflict is raised):
\* after the step the stored card holds the front and back of this edit, so the store
\* ends with those of the write applied last.
C21_Step ==
    \A i \in 1..Len(pending) :
        Accepted(i, "update") =>
            \E d \in store' : /\ d.id = pending[i].id /\ d.front = pending[i].front /\ d.back = pending[i].back
                              /\ \A e \in store' : e.id = d.id => e = d

C21_LastWriteWins == [][C21_Step]_vars

\* two edits of one card with different texts were both accepted; the store holds one of them
C21_Witness ==
    \E i, j \in 1..Len(pending) :
        /\ pending[i].op = "update" /\ pending[i].status = "ok"
        /\ pending[j].op = "update" /\ pending[j].status = "ok"
        /\ pending[i].id = pending[j].id /\ pending[i].front # pending[j].front
        /\ \E d \in store : d.id = pending[j].id /\ d.front = pending[j].front /\ d.back = pending[j].back

(***************************************************************************)
(* Claims about the callbacks of a quiz session (SpecQuiz)                 *)
(***************************************************************************)
\* C22: at every point of a quiz session the score is at most the number of questions
\* presented so far (cursor + 1) and at most the set size, and the accuracy of a result
\* lies between 0 and 100.
C22_ScoreBound ==
    (mounted /\ ~NoCardsScreen) =>
        /\ score <= currentIndex + 1
        /\ score <= Len(shuffledFlashcards)
        /\ result # <<>> => (~result[1].accuracy.nan /\ result[1].accuracy.value \in 0..100)

\* C23: at most one auto-advance callback is pending at any time in a quiz session, and
\* while the answer of a question is revealed after a submit, no step but the advance
\* changes the feedback shown for it.
C23_OneAdvance == mounted => Len(advances) <= 1

\* the oldest advance callback fires in this step, and it was scheduled in a round
\* that began at another time than the round now played
StaleAdvanceFires ==
    mounted /\ advances # <<>> /\ advances[1].rem = 0 /\ advances' = Tail(advances) /\ advances[1].startTime # startTime

\* C24: after Play Again, a callback scheduled during the previous round does not affect
\* the new round: when it fires, the cursor, the countdown, the typed answer, the
\* feedback, the state of the game and the result stay as they are.
C24_RoundsIsolated ==
    [][StaleAdvanceFires =>
          /\ currentIndex' = currentIndex /\ timeLeft' = timeLeft /\ userAnswer' = userAnswer
          /\ showAnswer' = showAnswer /\ isCorrect' = isCorrect
          /\ gameState' = gameState /\ result' = result]_vars

(***************************************************************************)
(* Claims about the end of a quiz session (SpecLive)                       *)
(***************************************************************************)
\* C28: when due timeouts fire and time passes, a quiz session over a non-empty card set
\* that is playing eventually is finished or closed, whether or not answers are
\* submitted; while it stays finished the countdown does not change.
C28_Frozen == (mounted /\ gameState = "finished" /\ mounted' /\ gameState' = "finished") => timeLeft' = timeLeft

C28_Reached == (mounted /\ ~NoCardsScreen /\ gameState = "playing") ~> (~mounted \/ gameState = "finished")

C28_Finishes == C28_Reached /\ [][C28_Frozen]_vars

(***************************************************************************)
(* Claims about the dashboard's list and the store (SpecDash)              *)
(***************************************************************************)
\* C25: when the handler of a mark-reviewed resumes after the store accepted the write,
\* the stored document of the marked card and the in-memory card agree on lastReviewed,
\* next-due date and review counter.
C25_StoreAgrees ==
    [][\A i \in 1..Len(pending) :
          (Resumed(i) /\ pending[i].op = "revise" /\ pending[i].status = "ok") =>
              \A k \in 1..Len(flashcards') : \A d \in store' :
                  (flashcards'[k].id = pending[i].id /\ d.id = pending[i].id) =>
                      /\ d.lastReviewed = flashcards'[k].lastReviewed
                      /\ d.nextRevision = flashcards'[k].nextRevision
                      /\ d.reviewCount = flashcards'[k].reviewCount]_vars

\* the identifiers of a list of cards, in its order
Ids(cards) == [k \in 1..Len(cards) |-> cards[k].id]

\* the initial load has been answered with the list
LoadAccepted == \E i \in 1..Len(pending) : pending[i].op = "load" /\ pending[i].status = "ok"

\* C26: once the initial load has succeeded, whenever no store call is outstanding the
\* in-memory list holds exactly the identifiers of the owner's stored cards, each once,
\* in the creation-descending order getUserFlashcards would return.
C26_ListMatchesStore == [](LoadAccepted => [](pending = <<>> => Ids(flashcards) = Ids(UserFlashcards(store, Uid))))

\* the store mutations of the dashboard: create, edit, delete, mark-reviewed
Mutations == {"add", "update", "delete", "revise"}

\* C27: the dashboard never has more than one store mutation outstanding: while a
\* create, edit, delete or mark-reviewed is awaited, no second one is issued.
C27_OneMutation == Cardinality({i \in 1..Len(pending) : pending[i].op \in Mutations}) <= 1

\* C29: when the handler of an accepted edit of card id resumes, only the front and the
\* back of that card change in the in-memory list (identifier, position, creation time,
\* schedule fields and every other card stay); when the handler of an accepted delete
\* of card id resumes, exactly that card leaves the list and the others keep their
\* fields and their order.
C29_Edited(i) ==
    /\ Len(flashcards') = Len(flashcards)
    /\ \A k \in 1..Len(flashcards) :
          IF flashcards[k].id = pending[i].id
          THEN flashcards'[k] = [flashcards[k] EXCEPT !.front = pending[i].front, !.back = pending[i].back]
          ELSE flashcards'[k] = flashcards[k]

C29_Deleted(i) ==
    LET at == {k \in 1..Len(flashcards) : flashcards[k].id = pending[i].id}
    IN  /\ Len(flashcards') = Len(flashcards) - Cardinality(at)
        /\ \A k \in 1..Len(flashcards) \ at :
              flashcards'[k - Cardinality({j \in at : j < k})] = flashcards[k]

C29_Step ==
    \A i \in 1..Len(pending) :
        /\ (Resumed(i) /\ pending[i].op = "update" /\ pending[i].status = "ok") => C29_Edited(i)
        /\ (Resumed(i) /\ pending[i].op = "delete" /\ pending[i].status = "ok") => C29_Deleted(i)

C29_EditDeleteFrame == [][C29_Step]_vars

\* of two cards in the list, one was edited and the other still has its own text
C29_Witness ==
    /\ pending = <<>>
    /\ \E k, m \in 1..Len(flashcards) :
          /\ flashcards[k].front = EditFront /\ flashcards[k].back = EditBack
          /\ flashcards[m].front # EditFront

====
